---- MODULE Spec2Model ----
(***************************************************************************)
(* Visitor-registration form automation (form_automation_lightweight.py,   *)
(* with the points where form_automation.py differs noted).  One run of    *)
(* main(): construct the bot, drive the two-page form, save the log,       *)
(* return an exit code, close the browser.  The browser is a fake page: a  *)
(* sequence of input elements with their observable behaviour; every       *)
(* other driver answer is drawn from a small set inside the action that    *)
(* issues the call.                                                        *)
(***************************************************************************)
EXTENDS Integers, Sequences, FiniteSets, TLC

VARIABLES
    pc,             \* position of the run inside main() / automate_form()
    driver,         \* browser session: "none" | "live" | "quit"
    bot,            \* main's local `bot` is bound (not None)
    execution_log,  \* self.execution_log: [steps, success, error]
    form_data,      \* the FormSubmission of this run
    success,        \* automate_form's local `success`
    exit_code,      \* value returned by main(), NoExit before it returns
    page,           \* the page the browser shows: [id, has_mobile, inputs]
    calls,          \* history: the interactions attempted, in order
    saved_log,      \* the JSON file save_execution_log wrote: <<>> or <<log>>
    raised,         \* the exception that reached main(): None | "init" | "automate_form"
    dd_tried,       \* the dropdown call just made: strategies attempted, in order
    dd_hits,        \* the dropdown call just made: strategies that selected an option
    detail          \* the single call under examination: its inputs and what it did

vars == <<pc, driver, bot, execution_log, form_data, success, exit_code,
          page, calls, saved_log, raised, dd_tried, dd_hits, detail>>

(***************************************************************************)
(* Bounds and the values the run is fed.                                   *)
(***************************************************************************)
MaxInputs == 2

NoExit == -1
None == "None"

Mobiles == {"5551234"}
VisitorName == "Jane Doe"

(***************************************************************************)
(* The fake page.  An input element is [type, displayed, enabled, value,   *)
(* fault]; value is the sequence of chunks typed into it (clear() empties  *)
(* it, send_keys(v) appends v).  fault is how the element misbehaves:      *)
(*   "stale"  every call on the element raises                             *)
(*   "nokeys" clear() works, send_keys() raises                            *)
(*   "mangle" send_keys() leaves a value that does not contain the keys    *)
(***************************************************************************)
Faults == {"none", "stale", "nokeys", "mangle"}

ElementKinds ==
    {[type |-> "text", displayed |-> TRUE, enabled |-> TRUE, value |-> v, fault |-> "none"] :
        v \in {<<>>, <<"old">>}}
    \cup
    {[type |-> "tel", displayed |-> TRUE, enabled |-> TRUE, value |-> <<>>, fault |-> "none"],
     [type |-> "text", displayed |-> FALSE, enabled |-> TRUE, value |-> <<>>, fault |-> "none"]}
    \cup
    {[type |-> "text", displayed |-> TRUE, enabled |-> TRUE, value |-> <<>>, fault |-> f] :
        f \in {"stale", "mangle"}}

InputSeqs == UNION {[1..n -> ElementKinds] : n \in 0..MaxInputs}

Pages(id) == {[id |-> id, has_mobile |-> m, inputs |-> s] :
                m \in BOOLEAN, s \in InputSeqs}

BlankPage == [id |-> 0, has_mobile |-> FALSE, inputs |-> <<>>]

\* v in value: the read-back contains the keys
Contains(value, v) == \E i \in 1..Len(value) : value[i] = v

\* value.strip() is the empty string
IsBlank(value) == \A i \in 1..Len(value) : value[i] = " "

\* faulty variant: the old content is kept, the keys are appended to it
Clear_keep(el) == el

\* element.clear()
Clear(el) == [el EXCEPT !.value = <<>>]

\* element.send_keys(v) on an element that accepts keys
SendKeys(el, v) ==
    IF el.fault = "mangle" THEN [el EXCEPT !.value = Append(@, "bad")]
    ELSE [el EXCEPT !.value = Append(@, v)]

\* faulty variant: the record is assigned, not appended
log_step_assign(log, step_name, status, message) ==
    [log EXCEPT !.steps = <<[step |-> step_name, status |-> status, message |-> message]>>]

(***************************************************************************)
(* log_step: append one record to execution_log['steps'].                  *)
(***************************************************************************)
log_step(log, step_name, status, message) ==
    [log EXCEPT !.steps = Append(@, [step |-> step_name, status |-> status,
                                      message |-> message])]

\* description.lower().replace(' ', '_')
Slug(description) ==
    CASE description = "Visitor Name" -> "visitor_name"
      [] description = "Access Level" -> "access_level"
      [] description = "Purpose" -> "purpose"
      [] description = "Additional Information" -> "additional_information"

\* no call is under examination during a run of main()
NoDetail == [op |-> "none"]

\* faulty variant: the run counts as successful until something fails
NewLog_optimistic == [steps |-> <<>>, success |-> TRUE, error |-> None]

\* __init__ lines 36-42
NewLog == [steps |-> <<>>, success |-> FALSE, error |-> None]

Init ==
    /\ pc = "start"
    /\ driver = "none"
    /\ bot = FALSE
    /\ execution_log = NewLog
    /\ form_data \in {[name |-> VisitorName, access_level |-> "3", purpose |-> "Delivery",
                     additional_info |-> "note", mobile |-> m] : m \in Mobiles}
    /\ success = FALSE
    /\ exit_code = NoExit
    /\ page = BlankPage
    /\ calls = <<>>
    /\ saved_log = <<>>
    /\ raised = None
    /\ dd_tried = <<>>
    /\ dd_hits = <<>>
    /\ detail = NoDetail

(***************************************************************************)
(* main line 506, VisitorRegistrationBot.__init__.  The log is created     *)
(* first; the log directory and the log file are set up outside the try    *)
(* block ("setup_raises": nothing is logged); then the browser is started  *)
(* and patched.  When anything raises, __init__ raises, so main's `bot`    *)
(* stays None, also when webdriver.Chrome() had already started the        *)
(* browser ("patch_raises": execute_script or WebDriverWait raised).       *)
(***************************************************************************)
InitOutcomes == {"ok", "setup_raises", "chrome_raises", "patch_raises"}

Construct ==
    /\ pc = "start"
    /\ \E o \in InitOutcomes :
        /\ driver' = IF o \in {"ok", "patch_raises"} THEN "live" ELSE "none"
        /\ bot' = (o = "ok")
        /\ execution_log' =
              CASE o = "ok" ->
                     log_step(NewLog, "browser_init", "success", <<"Browser initialized">>)
                [] o = "setup_raises" -> NewLog
                [] OTHER -> log_step(NewLog, "browser_init", "error", <<"exception">>)
        /\ pc' = IF o = "ok" THEN "open" ELSE "main_except"
        /\ raised' = IF o = "ok" THEN None ELSE "init"
    /\ UNCHANGED <<form_data, success, exit_code, page, calls, saved_log, dd_tried, dd_hits, detail>>

(***************************************************************************)
(* automate_form lines 402-411: driver.get(url), wait_for_page_load.       *)
(* wait_for_page_load catches TimeoutException only.                       *)
(***************************************************************************)
OpenOutcomes == {"ok", "get_raises", "timeout", "wait_raises"}

\* faulty variant: the result of wait_for_page_load is not looked at
PageLoadGate_ignored(o) == IF o \in {"ok", "timeout"} THEN "name" ELSE "af_except"

\* lines 410-411: `if not self.wait_for_page_load(): raise Exception(...)`;
\* an exception of driver.get or of the wait goes to the handler as well
PageLoadGate(o) == IF o = "ok" THEN "name" ELSE "af_except"

OpenForm ==
    /\ pc = "open"
    /\ \E o \in OpenOutcomes :
        /\ execution_log' =
              CASE o = "ok" -> log_step(execution_log, "page_load", "success", <<"Page loaded">>)
                [] o = "timeout" -> log_step(execution_log, "page_load", "error", <<"Page load timeout">>)
                [] OTHER -> execution_log
        /\ IF o = "ok" THEN page' \in Pages(1) ELSE page' = page
        /\ pc' = PageLoadGate(o)
    /\ UNCHANGED <<driver, bot, form_data, success, exit_code, calls, saved_log, raised, dd_tried, dd_hits, detail>>

(***************************************************************************)
(* fill_text_input(xpath, value, description) on the element the xpath     *)
(* names (Absent when it names nothing).  wait.until(element_to_be_        *)
(* clickable) times out on an absent, hidden or disabled element; any      *)
(* exception is caught, logged as an error step and turned into False.     *)
(* There is no read-back: a mangled write still returns True.              *)
(***************************************************************************)
Absent == [type |-> "absent", displayed |-> FALSE, enabled |-> FALSE,
           value |-> <<>>, fault |-> "none"]

Clickable(el) == el.type # "absent" /\ el.displayed /\ el.enabled

fill_text_input(el, value, description, log) ==
    CASE ~Clickable(el) ->
            [ok |-> FALSE, el |-> el,
             log |-> log_step(log, "fill_" \o Slug(description), "error", <<"exception">>)]
      [] Clickable(el) /\ el.fault = "stale" ->
            [ok |-> FALSE, el |-> el,
             log |-> log_step(log, "fill_" \o Slug(description), "error", <<"exception">>)]
      [] Clickable(el) /\ el.fault = "nokeys" ->
            [ok |-> FALSE, el |-> Clear(el),
             log |-> log_step(log, "fill_" \o Slug(description), "error", <<"exception">>)]
      [] OTHER ->
            [ok |-> TRUE, el |-> SendKeys(Clear(el), value),
             log |-> log_step(log, "fill_" \o Slug(description), "success", <<"Filled", description>>)]

\* the element of the page the Visitor Name xpath resolves to: the first input
NameElement(p) == IF Len(p.inputs) >= 1 THEN p.inputs[1] ELSE Absent

WithNameElement(p, el) ==
    IF Len(p.inputs) >= 1 THEN [p EXCEPT !.inputs[1] = el] ELSE p

Call(op, arg, ok) == [op |-> op, arg |-> arg, ok |-> ok]

\* faulty variant: all-or-nothing, a failed field aborts the run
BestEffort_strict(ok, to) == IF ok THEN to ELSE "af_except"

\* lines 414-436: each result is assigned to `success` and never tested, so the
\* flow goes on to the next step whatever the result
BestEffort(ok, to) == to

\* automate_form lines 414-418
FillName ==
    /\ pc = "name"
    /\ LET r == fill_text_input(NameElement(page), form_data.name, "Visitor Name", execution_log)
       IN /\ page' = WithNameElement(page, r.el)
          /\ execution_log' = r.log
          /\ success' = r.ok
          /\ calls' = Append(calls, Call("fill_text_input", "Visitor Name", r.ok))
          /\ pc' = BestEffort(r.ok, "access")
    /\ UNCHANGED <<driver, bot, form_data, exit_code, saved_log, raised, dd_tried, dd_hits, detail>>

(***************************************************************************)
(* handle_microsoft_dropdown.  The driver's answers are the inputs:        *)
(*   open  the trigger: "ok" | "timeout" | "click_raises"                  *)
(*   s1    strategy 1 (exact text): "hit" | "none" | "raise"               *)
(*   s2    strategy 2, one answer per selector of option_selectors:        *)
(*         "hit" (found, displayed, clicked) or "miss" (find_element       *)
(*         raised, the element is not displayed, or click raised: each     *)
(*         leaves the loop to go on with the next selector)                *)
(*   s3    strategy 3 (keyboard): "ok" | "text_raises" | "enter_raises"    *)
(***************************************************************************)
OpenAnswers == {"ok", "timeout", "click_raises"}
S1Answers == {"hit", "none", "raise"}
SelectorAnswers == {"hit", "miss"}
S3Answers == {"ok", "text_raises", "enter_raises"}
NumOptionSelectors == 3

\* for selector in selectors: find_element; if displayed: click, found, break;
\* except: continue.  TRUE iff some selector's element was clicked.
RECURSIVE FirstHit(_, _)
FirstHit(answers, i) ==
    IF i > Len(answers) THEN 0
    ELSE IF answers[i] = "hit" THEN i
    ELSE FirstHit(answers, i + 1)

\* faulty variant: the guard is missing, every strategy runs
TryNextStrategy_always(option_found) == TRUE

\* lines 159 and 181: `if not option_found`
TryNextStrategy(option_found) == ~option_found

\* faulty variant: every strategy announces its selection with the same words
SelectionMessage_same(k) == "Selected option"

\* logger.info of lines 153, 173 and 188: the transcript names the strategy
SelectionMessage(k) ==
    CASE k = 1 -> "Selected option"
      [] k = 2 -> "Selected option with selector"
      [] k = 3 -> "Selected option using keyboard"

\* faulty variant: a trigger that did not open is not noticed
OpenFailed_ignored(open) == FALSE

\* lines 136-140 inside the try of line 133: a timeout of the wait or an
\* exception of the click goes straight to the handler of line 201
OpenFailed(open) == open # "ok"

handle_microsoft_dropdown(open, s1, s2, s3, option_text, description, log) ==
    IF OpenFailed(open)
    THEN [ok |-> FALSE, tried |-> <<>>, hits |-> <<>>, logged |-> <<>>,
          log |-> log_step(log, "dropdown_" \o Slug(description), "error", <<"exception">>)]
    ELSE
      LET found1 == (s1 = "hit")
          run2 == TryNextStrategy(found1)
          hit2 == run2 /\ FirstHit(s2, 1) # 0
          found2 == found1 \/ hit2
          run3 == TryNextStrategy(found2)
          hit3 == run3 /\ s3 = "ok"
          option_found == found2 \/ hit3
          tried == <<1>> \o (IF run2 THEN <<2>> ELSE <<>>) \o (IF run3 THEN <<3>> ELSE <<>>)
          hits == (IF found1 THEN <<1>> ELSE <<>>) \o (IF hit2 THEN <<2>> ELSE <<>>)
                    \o (IF hit3 THEN <<3>> ELSE <<>>)
          logged == [i \in 1..Len(hits) |-> SelectionMessage(hits[i])]
      IN IF ~option_found
         THEN [ok |-> FALSE, tried |-> tried, hits |-> hits, logged |-> logged,
               log |-> log_step(log, "dropdown_" \o Slug(description), "error",
                                <<"Option", option_text, "not found">>)]
         ELSE [ok |-> TRUE, tried |-> tried, hits |-> hits, logged |-> logged,
               log |-> log_step(log, "dropdown_" \o Slug(description), "success",
                                <<"Selected", option_text>>)]

(***************************************************************************)
(* Strategy 1 in detail, lines 147-156.  find_elements returns every       *)
(* element of the document whose text contains option_text, in document    *)
(* order; a candidate is [text, displayed, revealed, click_raises], where  *)
(* text is a sequence of chunks and revealed tells whether the element     *)
(* appeared when the dropdown was opened.  The first displayed candidate   *)
(* whose stripped text equals option_text is clicked.                      *)
(***************************************************************************)
RECURSIVE StripLeft(_)
StripLeft(text) ==
    IF text # <<>> /\ Head(text) = " " THEN StripLeft(Tail(text)) ELSE text

RECURSIVE StripRight(_)
StripRight(text) ==
    IF text # <<>> /\ text[Len(text)] = " "
    THEN StripRight(SubSeq(text, 1, Len(text) - 1)) ELSE text

\* str.strip()
Strip(text) == StripRight(StripLeft(text))

\* line 150: `option.is_displayed() and option.text.strip() == option_text`
ExactMatch(c, option_text) == c.displayed /\ Strip(c.text) = <<option_text>>

RECURSIVE FirstExact(_, _, _)
FirstExact(cands, i, option_text) ==
    IF i > Len(cands) THEN 0
    ELSE IF ExactMatch(cands[i], option_text) THEN i
    ELSE FirstExact(cands, i + 1, option_text)

\* the outcome of the loop: the click of the chosen candidate may raise, which
\* ends the strategy (line 155) before option_found is set
Strategy1(find_raises, cands, option_text) ==
    LET k == FirstExact(cands, 1, option_text)
    IN IF find_raises THEN "raise"
       ELSE IF k = 0 THEN "none"
       ELSE IF cands[k].click_raises THEN "raise"
       ELSE "hit"

Dropdown(at, description, option_text, to) ==
    /\ pc = at
    /\ \E open \in OpenAnswers, s1 \in S1Answers,
          s2 \in [1..NumOptionSelectors -> SelectorAnswers], s3 \in S3Answers :
        LET r == handle_microsoft_dropdown(open, s1, s2, s3, option_text, description, execution_log)
        IN /\ execution_log' = r.log
           /\ success' = r.ok
           /\ dd_tried' = r.tried
           /\ dd_hits' = r.hits
           /\ calls' = Append(calls, Call("handle_microsoft_dropdown", description, r.ok))
           /\ pc' = BestEffort(r.ok, to)
    /\ UNCHANGED <<driver, bot, form_data, exit_code, page, saved_log, raised, detail>>

\* automate_form lines 420-424
SelectAccessLevel == Dropdown("access", "Access Level", form_data.access_level, "purpose")

\* automate_form lines 426-430
SelectPurpose == Dropdown("purpose", "Purpose", form_data.purpose, "addinfo")

\* automate_form lines 432-436: the textarea is not one of the page's inputs
TextareaKinds ==
    {Absent} \cup
    {[type |-> "textarea", displayed |-> TRUE, enabled |-> TRUE, value |-> <<>>, fault |-> f] :
        f \in Faults}

FillAdditionalInfo ==
    /\ pc = "addinfo"
    /\ \E el \in TextareaKinds :
        LET r == fill_text_input(el, form_data.additional_info, "Additional Information", execution_log)
        IN /\ execution_log' = r.log
           /\ success' = r.ok
           /\ calls' = Append(calls, Call("fill_text_input", "Additional Information", r.ok))
           /\ pc' = BestEffort(r.ok, "radio_probe")
    /\ dd_tried' = <<>>
    /\ dd_hits' = <<>>
    /\ UNCHANGED <<driver, bot, form_data, exit_code, page, saved_log, raised, detail>>

(***************************************************************************)
(* automate_form line 439: the probe for radio inputs.  find_elements is   *)
(* outside every inner try, so its exception reaches automate_form's       *)
(* handler.  An empty list skips the whole consent block.                  *)
(***************************************************************************)
ProbeAnswers == {"some", "empty", "raise"}

\* faulty variant: the consent block runs whatever the probe found
ConsentPresent_always(answer) == TRUE

\* line 440: `if radio_buttons:`
ConsentPresent(answer) == answer = "some"

ProbeRadio ==
    /\ pc = "radio_probe"
    /\ \E a \in ProbeAnswers :
        /\ pc' = IF a = "raise" THEN "af_except"
                 ELSE IF ConsentPresent(a) THEN "radio_yes" ELSE "af_end"
        /\ detail' = [op |-> "probe", answer |-> a]
    /\ UNCHANGED <<driver, bot, execution_log, form_data, success, exit_code,
                   page, calls, saved_log, raised, dd_tried, dd_hits>>

(***************************************************************************)
(* handle_radio_button(value_text, description): five selectors tried in   *)
(* order, then the click on the text element itself.  answers[1..5] are    *)
(* the driver's answers for radio_selectors, answers[6] the answer for the *)
(* alternative approach.                                                   *)
(***************************************************************************)
NumRadioStrategies == 6

\* lines 236-240 in order, then the alternative approach of line 261
RadioStrategies ==
    <<"value_attr", "label", "preceding_sibling", "following_sibling",
      "parent_child", "text_click">>

\* the selectors of the loop, lines 235-241
NumRadioSelectors == 5

\* faulty variant: the alternative approach runs even after a selector's click
AlternativeAllowed_always(radio_found) == TRUE

\* line 259: `if not radio_found:`
AlternativeAllowed(radio_found) == ~radio_found

\* tried: the strategies that ran, in order; clicks: the strategies whose
\* element was clicked
handle_radio_button(answers, value_text, log) ==
    LET h == FirstHit(SubSeq(answers, 1, NumRadioSelectors), 1)
        alt == AlternativeAllowed(h # 0)
        alt_hit == alt /\ answers[NumRadioStrategies] = "hit"
        radio_found == h # 0 \/ alt_hit
        tried == [i \in 1..(IF h # 0 THEN h ELSE NumRadioSelectors) |-> i]
                 \o (IF alt THEN <<NumRadioStrategies>> ELSE <<>>)
        clicks == (IF h # 0 THEN <<h>> ELSE <<>>)
                  \o (IF alt_hit THEN <<NumRadioStrategies>> ELSE <<>>)
    IN IF ~radio_found
       THEN [ok |-> FALSE, tried |-> tried, clicks |-> clicks,
             log |-> log_step(log, "radio_button", "error",
                              <<"Radio button", value_text, "not found">>)]
       ELSE [ok |-> TRUE, tried |-> tried, clicks |-> clicks,
             log |-> log_step(log, "radio_button", "success", <<"Selected", value_text>>)]

Radio(at, value_text, to_ok, to_fail) ==
    /\ pc = at
    /\ \E answers \in [1..NumRadioStrategies -> SelectorAnswers] :
        LET r == handle_radio_button(answers, value_text, execution_log)
        IN /\ execution_log' = r.log
           /\ success' = r.ok
           /\ calls' = Append(calls, Call("handle_radio_button", value_text, r.ok))
           /\ pc' = IF r.ok THEN to_ok ELSE to_fail
    /\ UNCHANGED <<driver, bot, form_data, exit_code, page, saved_log, raised, dd_tried, dd_hits, detail>>

\* faulty variant: the second variant is tried after every first attempt
NeedSecondVariant_always(ok) == TRUE

\* line 444: `if not success:` the second variant is tried
NeedSecondVariant(ok) == ~ok

\* faulty variant: Next is clicked whether or not the consent was answered
NextAllowed_blind(ok) == TRUE

\* line 447: `if success:` the Next click is attempted
NextAllowed(ok) == ok

\* line 443
RadioYes ==
    Radio("radio_yes", "Yes",
          IF NeedSecondVariant(TRUE) THEN "radio_zh"
          ELSE IF NextAllowed(TRUE) THEN "next" ELSE "af_end",
          IF NeedSecondVariant(FALSE) THEN "radio_zh"
          ELSE IF NextAllowed(FALSE) THEN "next" ELSE "af_end")

\* faulty variant: the two variants are retried until one of them is selected
RadioChinese_retry ==
    Radio("radio_zh", "Shi", IF NextAllowed(TRUE) THEN "next" ELSE "af_end", "radio_yes")

\* line 445; "Shi" stands for the Chinese label of the same answer
RadioChinese ==
    Radio("radio_zh", "Shi",
          IF NextAllowed(TRUE) THEN "next" ELSE "af_end",
          IF NextAllowed(FALSE) THEN "next" ELSE "af_end")

(***************************************************************************)
(* click_next_button: wait for the button, scroll, click, sleep.  A click  *)
(* that returns is reported as success whether or not the browser moved    *)
(* to the second page; any exception becomes an error step and False.      *)
(***************************************************************************)
NextAnswers == {"moved", "stayed", "raise"}

click_next_button(answer, log) ==
    IF answer = "raise"
    THEN [ok |-> FALSE, log |-> log_step(log, "click_next", "error", <<"exception">>)]
    ELSE [ok |-> TRUE, log |-> log_step(log, "click_next", "success", <<"Next button clicked">>)]

\* faulty variant: the mobile page is handled whatever click_next_button returned
MobileAllowed_blind(next_ok) == TRUE

\* line 448: `if self.click_next_button():` the mobile page is handled
MobileAllowed(next_ok) == next_ok

ClickNext ==
    /\ pc = "next"
    /\ \E a \in NextAnswers :
        LET r == click_next_button(a, execution_log)
        IN /\ execution_log' = r.log
           /\ calls' = Append(calls, Call("click_next_button", "", r.ok))
           /\ IF a = "moved" THEN page' \in Pages(2) ELSE page' = page
           /\ pc' = IF MobileAllowed(r.ok) THEN "mobile" ELSE "af_end"
    /\ UNCHANGED <<driver, bot, form_data, success, exit_code, saved_log, raised, dd_tried, dd_hits, detail>>

(***************************************************************************)
(* handle_mobile_number_page, lines 287-353: the phone-field heuristic.    *)
(* Three strategies in order; each walks the elements its selector finds,  *)
(* fills a candidate and reads it back.  An exception on one element is    *)
(* caught per element (line 345), an exception of a whole strategy per     *)
(* strategy (line 348).                                                    *)
(***************************************************************************)
Strategies ==
    << [name |-> "mobile_context_search", type |-> "text"],
       [name |-> "empty_field_search", type |-> "text"],
       [name |-> "tel_input_search", type |-> "tel"] >>

\* faulty variant: the contextual strategy is not gated on the page text
validate_always(k, p) == TRUE

\* strategy['validate'](): lines 298, 303, 308
validate(k, p) == IF Strategies[k].name = "mobile_context_search" THEN p.has_mobile ELSE TRUE

\* faulty variant: the emptiness strategy does not look at the current value
TryElement_any(el, strategy_name, mobile_number) ==
    IF el.fault = "stale" THEN [el |-> el, found |-> FALSE]
    ELSE IF ~(el.displayed /\ el.enabled) THEN [el |-> el, found |-> FALSE]
    ELSE IF el.fault = "nokeys" THEN [el |-> Clear(el), found |-> FALSE]
    ELSE LET filled == SendKeys(Clear(el), mobile_number)
         IN [el |-> filled, found |-> Contains(filled.value, mobile_number)]

\* lines 326-346 for one element
TryElement(el, strategy_name, mobile_number) ==
    IF el.fault = "stale" THEN [el |-> el, found |-> FALSE]
    ELSE IF ~(el.displayed /\ el.enabled) THEN [el |-> el, found |-> FALSE]
    ELSE IF strategy_name = "empty_field_search" /\ ~IsBlank(el.value)
         THEN [el |-> el, found |-> FALSE]
    ELSE IF el.fault = "nokeys" THEN [el |-> Clear(el), found |-> FALSE]
    ELSE LET filled == SendKeys(Clear(el), mobile_number)
         IN [el |-> filled, found |-> Contains(filled.value, mobile_number)]

\* faulty variant: the element loop goes on after a field was accepted
StopAtAccepted_never(accepted) == FALSE

\* lines 339-343: `mobile_field_found = True ... break`
StopAtAccepted(accepted) == accepted

\* lines 322-346: the elements the selector finds, in document order
RECURSIVE TryElements(_, _, _, _)
TryElements(inputs, i, strategy, mobile_number) ==
    IF i > Len(inputs) THEN [inputs |-> inputs, found |-> FALSE]
    ELSE IF inputs[i].type # strategy.type
         THEN TryElements(inputs, i + 1, strategy, mobile_number)
    ELSE LET r == TryElement(inputs[i], strategy.name, mobile_number)
             after == [inputs EXCEPT ![i] = r.el]
         IN IF StopAtAccepted(r.found) THEN [inputs |-> after, found |-> TRUE]
            ELSE LET rest == TryElements(after, i + 1, strategy, mobile_number)
                 IN [rest EXCEPT !.found = @ \/ r.found]

StrategyAnswers == {"ok", "raise"}

\* faulty variant: no per-strategy handler, the exception reaches line 363
StrategyExceptionCaught_none(k) == FALSE

\* lines 348-349: `except Exception: continue` around one strategy
StrategyExceptionCaught(k) == k \in 1..Len(Strategies)

\* lines 312-349; sfault[k] = "raise": validate() or find_elements raised.
\* queried: the strategies whose find_elements returned its elements
RECURSIVE RunStrategies(_, _, _, _)
RunStrategies(k, p, sfault, mobile_number) ==
    IF k > Len(Strategies)
    THEN [inputs |-> p.inputs, found |-> FALSE, escaped |-> FALSE, queried |-> <<>>]
    ELSE IF sfault[k] = "raise"
         THEN IF StrategyExceptionCaught(k)
              THEN RunStrategies(k + 1, p, sfault, mobile_number)
              ELSE [inputs |-> p.inputs, found |-> FALSE, escaped |-> TRUE, queried |-> <<>>]
    ELSE IF ~validate(k, p) THEN RunStrategies(k + 1, p, sfault, mobile_number)
    ELSE LET r == TryElements(p.inputs, 1, Strategies[k], mobile_number)
         IN IF r.found
            THEN [inputs |-> r.inputs, found |-> TRUE, escaped |-> FALSE, queried |-> <<k>>]
            ELSE LET rest == RunStrategies(k + 1, [p EXCEPT !.inputs = r.inputs],
                                           sfault, mobile_number)
                 IN [rest EXCEPT !.queried = <<k>> \o @]

\* faulty variant: the success step reports the default number of line 292
\* instead of the number that was typed
MobileStep_default(log, r, mobile_number) ==
    IF r.escaped THEN log_step(log, "mobile_number", "error", <<"exception">>)
    ELSE IF r.found
         THEN log_step(log, "mobile_number", "success", <<"Filled mobile:", "87686853">>)
    ELSE log_step(log, "mobile_number", "error", <<"Mobile field not found">>)

\* the step the heuristic logs: line 342, line 353, or line 365 when an
\* exception reached the outer handler
MobileStep(log, r, mobile_number) ==
    IF r.escaped THEN log_step(log, "mobile_number", "error", <<"exception">>)
    ELSE IF r.found
         THEN log_step(log, "mobile_number", "success", <<"Filled mobile:", mobile_number>>)
    ELSE log_step(log, "mobile_number", "error", <<"Mobile field not found">>)

MobileHeuristic ==
    /\ pc = "mobile"
    /\ \E sfault \in [1..Len(Strategies) -> StrategyAnswers] :
        LET r == RunStrategies(1, page, sfault, form_data.mobile)
        IN /\ page' = [page EXCEPT !.inputs = r.inputs]
           /\ execution_log' = MobileStep(execution_log, r, form_data.mobile)
           /\ calls' = Append(calls, Call("mobile_heuristic", "", r.found))
           /\ pc' = IF r.escaped THEN "af_end" ELSE "submit"
    /\ UNCHANGED <<driver, bot, form_data, success, exit_code, saved_log, raised, dd_tried, dd_hits, detail>>

(***************************************************************************)
(* handle_mobile_number_page lines 355-361 with click_submit_button: four  *)
(* selectors in order, the first displayed and enabled element is clicked. *)
(* A failed Submit logs no step and raises nothing.                        *)
(***************************************************************************)
NumSubmitSelectors == 4

click_submit_button(answers) == FirstHit(answers, 1) # 0

Submit ==
    /\ pc = "submit"
    /\ \E answers \in [1..NumSubmitSelectors -> SelectorAnswers] :
        LET submit_success == click_submit_button(answers)
        IN /\ execution_log' =
                 IF submit_success
                 THEN log_step(execution_log, "form_submit", "success", <<"Form submitted">>)
                 ELSE execution_log
           /\ calls' = Append(calls, Call("click_submit_button", "", submit_success))
    /\ pc' = "af_end"
    /\ UNCHANGED <<driver, bot, form_data, success, exit_code, page, saved_log, raised, dd_tried, dd_hits, detail>>

\* faulty variant: the success flag is never set
AutomateFormEnd_unset ==
    /\ pc = "af_end"
    /\ pc' = "main_ok"
    /\ UNCHANGED <<driver, bot, execution_log, form_data, success, exit_code, page, calls,
                   saved_log, raised, dd_tried, dd_hits, detail>>

\* automate_form lines 452-453: the end of the try block
AutomateFormEnd ==
    /\ pc = "af_end"
    /\ execution_log' = [execution_log EXCEPT !.success = TRUE]
    /\ pc' = "main_ok"
    /\ UNCHANGED <<driver, bot, form_data, success, exit_code, page, calls, saved_log, raised,
                   dd_tried, dd_hits, detail>>

\* automate_form lines 455-458: record the error and re-raise
AutomateFormExcept ==
    /\ pc = "af_except"
    /\ execution_log' = [execution_log EXCEPT !.error = "exception"]
    /\ raised' = "automate_form"
    /\ pc' = "main_except"
    /\ UNCHANGED <<driver, bot, form_data, success, exit_code, page, calls, saved_log,
                   dd_tried, dd_hits, detail>>

(***************************************************************************)
(* save_execution_log: the log is written as JSON; a failed write is       *)
(* caught and only logged.                                                 *)
(***************************************************************************)
save_execution_log(log, write_ok) == IF write_ok THEN <<log>> ELSE <<>>

\* main lines 511-518
MainReturnOk ==
    /\ pc = "main_ok"
    /\ \E write_ok \in BOOLEAN : saved_log' = save_execution_log(execution_log, write_ok)
    /\ exit_code' = 0
    /\ pc' = "finally"
    /\ UNCHANGED <<driver, bot, execution_log, form_data, success, page, calls,
                   dd_tried, dd_hits, raised, detail>>

\* main lines 520-525
MainExcept ==
    /\ pc = "main_except"
    /\ IF bot
       THEN /\ execution_log' = [execution_log EXCEPT !.error = "exception"]
            /\ \E write_ok \in BOOLEAN :
                 saved_log' = save_execution_log(execution_log', write_ok)
       ELSE UNCHANGED <<execution_log, saved_log>>
    /\ exit_code' = 1
    /\ pc' = "finally"
    /\ UNCHANGED <<driver, bot, form_data, success, page, calls, dd_tried, dd_hits, raised, detail>>

\* close(): `if self.driver: self.driver.quit()`; quit() of the Chrome driver
\* swallows its own errors, so close() does not raise
close(d) == IF d = "live" THEN "quit" ELSE d

\* main lines 526-528: `finally: if bot: bot.close()`
MainFinally ==
    /\ pc = "finally"
    /\ driver' = IF bot THEN close(driver) ELSE driver
    /\ pc' = "done"
    /\ UNCHANGED <<bot, execution_log, form_data, success, exit_code, page, calls,
                   saved_log, raised, dd_tried, dd_hits, detail>>

Next ==
    \/ Construct
    \/ OpenForm
    \/ FillName
    \/ SelectAccessLevel
    \/ SelectPurpose
    \/ FillAdditionalInfo
    \/ ProbeRadio
    \/ RadioYes
    \/ RadioChinese
    \/ ClickNext
    \/ MobileHeuristic
    \/ Submit
    \/ AutomateFormEnd
    \/ AutomateFormExcept
    \/ MainReturnOk
    \/ MainExcept
    \/ MainFinally

Spec == Init /\ [][Next]_vars

(***************************************************************************)
(* The methods one call at a time.  A bot whose browser shows the loaded   *)
(* form receives a single call of one method; the answers of the driver    *)
(* are drawn in full detail and kept in `detail` next to what the call     *)
(* did.                                                                    *)
(***************************************************************************)
MaxCandidates == 2

LoadedLog ==
    log_step(log_step(NewLog, "browser_init", "success", <<"Browser initialized">>),
             "page_load", "success", <<"Page loaded">>)

UnitInit ==
    /\ pc = "unit"
    /\ driver = "live"
    /\ bot = TRUE
    /\ execution_log = LoadedLog
    /\ form_data \in {[name |-> VisitorName, access_level |-> "3", purpose |-> "Delivery",
                     additional_info |-> "note", mobile |-> m] : m \in Mobiles}
    /\ success = FALSE
    /\ exit_code = NoExit
    /\ page = [id |-> 1, has_mobile |-> FALSE, inputs |-> <<>>]
    /\ calls = <<>>
    /\ saved_log = <<>>
    /\ raised = None
    /\ dd_tried = <<>>
    /\ dd_hits = <<>>
    /\ detail = NoDetail

\* what find_elements of line 148 can return for option_text
CandidateKinds(option_text) ==
    {[text |-> t, displayed |-> d, revealed |-> r, click_raises |-> FALSE] :
        t \in {<<option_text>>, <<" ", option_text, " ">>, <<option_text, "0">>},
        d \in BOOLEAN, r \in BOOLEAN}
    \cup
    {[text |-> <<option_text>>, displayed |-> TRUE, revealed |-> TRUE, click_raises |-> TRUE]}

CandidateSeqs(option_text) ==
    UNION {[1..n -> CandidateKinds(option_text)] : n \in 0..MaxCandidates}

\* the value the dropdown control shows after the call: a click on an option
\* that opening revealed selects it, a click on any other element does not;
\* the keys of strategy 3 select the option only if the page took them
ControlValue(r, cands, took, option_text) ==
    CASE r.hits = <<1>> ->
            IF cands[FirstExact(cands, 1, option_text)].revealed THEN option_text ELSE ""
      [] r.hits = <<2>> -> option_text
      [] r.hits = <<3>> -> IF took THEN option_text ELSE ""
      [] OTHER -> ""

\* one call of handle_microsoft_dropdown (lines 131-204)
UnitDropdown ==
    /\ pc = "unit"
    /\ \E open \in OpenAnswers, find_raises \in BOOLEAN,
          s2 \in [1..NumOptionSelectors -> SelectorAnswers], s3 \in S3Answers,
          took \in BOOLEAN :
        \E cands \in IF find_raises THEN {<<>>} ELSE CandidateSeqs(form_data.access_level) :
          LET option_text == form_data.access_level
              s1 == Strategy1(find_raises, cands, option_text)
              r == handle_microsoft_dropdown(open, s1, s2, s3, option_text,
                                             "Access Level", execution_log)
          IN /\ execution_log' = r.log
             /\ success' = r.ok
             /\ dd_tried' = r.tried
             /\ dd_hits' = r.hits
             /\ calls' = Append(calls, Call("handle_microsoft_dropdown", "Access Level", r.ok))
             /\ detail' = [op |-> "dropdown", open |-> open, cands |-> cands, s1 |-> s1,
                           s2 |-> s2, s3 |-> s3, option_text |-> option_text,
                           ok |-> r.ok, tried |-> r.tried, hits |-> r.hits,
                           logged |-> r.logged,
                           clicked |-> IF r.hits = <<1>>
                                       THEN FirstExact(cands, 1, option_text) ELSE 0,
                           selected |-> ControlValue(r, cands, took, option_text)]
    /\ pc' = "unit_done"
    /\ UNCHANGED <<driver, bot, form_data, exit_code, page, saved_log, raised>>

(***************************************************************************)
(* The inputs a single call may meet: every fault on a clickable text      *)
(* input, every initial content (empty, white space, a value), a hidden    *)
(* and a disabled input.                                                   *)
(***************************************************************************)
UnitElementKinds ==
    {[type |-> "text", displayed |-> TRUE, enabled |-> TRUE, value |-> v, fault |-> f] :
        v \in {<<>>, <<" ">>, <<"old">>}, f \in Faults}
    \cup
    {[type |-> "tel", displayed |-> TRUE, enabled |-> TRUE, value |-> v, fault |-> "none"] :
        v \in {<<>>, <<" ">>, <<"old">>}}
    \cup
    {[type |-> "text", displayed |-> d, enabled |-> ~d, value |-> <<>>, fault |-> "none"] :
        d \in BOOLEAN}

MaxFills == 2

\* the controls fill_text_input is called on, one of them already holding the value
FillTargets ==
    UnitElementKinds \cup {Absent} \cup
    {[type |-> "text", displayed |-> TRUE, enabled |-> TRUE,
      value |-> <<VisitorName>>, fault |-> "none"]}

\* a first call of fill_text_input (lines 110-129) on the first input of the page
UnitFill ==
    /\ pc = "unit"
    /\ \E el \in FillTargets :
        LET r == fill_text_input(el, form_data.name, "Visitor Name", execution_log)
        IN /\ page' = [page EXCEPT !.inputs = IF el = Absent THEN <<>> ELSE <<r.el>>]
           /\ execution_log' = r.log
           /\ success' = r.ok
           /\ calls' = Append(calls, Call("fill_text_input", "Visitor Name", r.ok))
           /\ detail' = [op |-> "fill", n |-> 1, value |-> form_data.name,
                         before |-> el, first |-> r.el, ok |-> r.ok]
    /\ pc' = "unit_fill"
    /\ UNCHANGED <<driver, bot, form_data, exit_code, saved_log, raised, dd_tried, dd_hits>>

\* the same call made again with the same value
UnitFillAgain ==
    /\ pc = "unit_fill"
    /\ detail.n < MaxFills
    /\ LET r == fill_text_input(NameElement(page), detail.value, "Visitor Name", execution_log)
       IN /\ page' = WithNameElement(page, r.el)
          /\ execution_log' = r.log
          /\ success' = r.ok
          /\ calls' = Append(calls, Call("fill_text_input", "Visitor Name", r.ok))
          /\ detail' = [detail EXCEPT !.n = @ + 1, !.ok = r.ok]
    /\ UNCHANGED <<pc, driver, bot, form_data, exit_code, saved_log, raised, dd_tried, dd_hits>>

\* what the driver answers for one radio strategy: an element that is
\* clicked, no element (find_element raises), an element that is not
\* displayed, an element whose click raises
RadioAnswers == {"hit", "missing", "hidden", "click_raises"}

\* one call of handle_radio_button (lines 230-283)
UnitRadio ==
    /\ pc = "unit"
    /\ \E answers \in [1..NumRadioStrategies -> RadioAnswers], value_text \in {"Yes", "Shi"} :
        LET r == handle_radio_button(answers, value_text, execution_log)
        IN /\ execution_log' = r.log
           /\ success' = r.ok
           /\ calls' = Append(calls, Call("handle_radio_button", value_text, r.ok))
           /\ detail' = [op |-> "radio", answers |-> answers, value_text |-> value_text,
                         ok |-> r.ok, tried |-> r.tried, clicks |-> r.clicks]
    /\ pc' = "unit_done"
    /\ UNCHANGED <<driver, bot, form_data, exit_code, page, saved_log, raised, dd_tried, dd_hits>>

MaxUnitInputs == 2

\* the second page as one call of the heuristic may find it
UnitPages ==
    {[id |-> 2, has_mobile |-> m, inputs |-> s] :
        m \in BOOLEAN,
        s \in UNION {[1..n -> UnitElementKinds] : n \in 0..MaxUnitInputs}}

\* the phone-field heuristic alone, lines 287-353
UnitMobile ==
    /\ pc = "unit"
    /\ \E p \in UnitPages, sfault \in [1..Len(Strategies) -> StrategyAnswers] :
        LET r == RunStrategies(1, p, sfault, form_data.mobile)
        IN /\ page' = [p EXCEPT !.inputs = r.inputs]
           /\ execution_log' = MobileStep(execution_log, r, form_data.mobile)
           /\ calls' = Append(calls, Call("mobile_heuristic", "", r.found))
           /\ detail' = [op |-> "mobile", before |-> p.inputs, has_mobile |-> p.has_mobile,
                         sfault |-> sfault, found |-> r.found, escaped |-> r.escaped,
                         queried |-> r.queried]
    /\ pc' = "unit_done"
    /\ UNCHANGED <<driver, bot, form_data, success, exit_code, saved_log, raised,
                   dd_tried, dd_hits>>

\* one pass of the loop of line 312 for the strategy empty_field_search
UnitEmptiness ==
    /\ pc = "unit"
    /\ \E p \in UnitPages :
        LET r == TryElements(p.inputs, 1, Strategies[2], form_data.mobile)
        IN /\ page' = [p EXCEPT !.inputs = r.inputs]
           /\ detail' = [op |-> "emptiness", before |-> p.inputs, found |-> r.found]
    /\ pc' = "unit_done"
    /\ UNCHANGED <<driver, bot, execution_log, form_data, success, exit_code, calls,
                   saved_log, raised, dd_tried, dd_hits>>

MaxMatches == 2

\* an element a Submit selector matches: is_displayed(), is_enabled(), and
\* whether click() raises
MatchKinds ==
    {[displayed |-> TRUE, enabled |-> TRUE, click_raises |-> c] : c \in BOOLEAN}
    \cup
    {[displayed |-> d, enabled |-> ~d, click_raises |-> FALSE] : d \in BOOLEAN}

\* what one selector resolves to: the lookup raises, or the matching
\* elements in document order (none: find_element raises NoSuchElement)
Resolutions ==
    {[raises |-> TRUE, matches |-> <<>>]}
    \cup
    {[raises |-> FALSE, matches |-> m] :
        m \in UNION {[1..n -> MatchKinds] : n \in 0..MaxMatches}}

\* lines 381-389 for one selector: find_element returns the first match in
\* document order
SubmitCandidate(res) ==
    IF res.raises \/ res.matches = <<>> THEN "raise"
    ELSE LET submit_button == res.matches[1]
         IN IF submit_button.displayed /\ submit_button.enabled
            THEN IF submit_button.click_raises THEN "raise" ELSE "clicked"
            ELSE "skip"

\* faulty variant: no handler inside the loop, the exception reaches line 396
CandidateExceptionCaught_none(k) == FALSE

\* lines 390-391: `except: continue` around one selector
CandidateExceptionCaught(k) == k \in 1..NumSubmitSelectors

\* index of the first displayed element among the matches, 0 if there is none
RECURSIVE FirstDisplayed(_, _)
FirstDisplayed(matches, i) ==
    IF i > Len(matches) THEN 0
    ELSE IF matches[i].displayed THEN i
    ELSE FirstDisplayed(matches, i + 1)

\* click_submit_button is entered (lines 369-377)
UnitSubmitStart ==
    /\ pc = "unit"
    /\ pc' = "unit_submit"
    /\ detail' = [op |-> "submit", k |-> 1, tried |-> <<>>, acted |-> 0, element |-> 0,
                  first_visible |-> 0, last |-> [raises |-> FALSE, matches |-> <<>>],
                  outcome |-> "none", done |-> FALSE, ok |-> FALSE]
    /\ UNCHANGED <<driver, bot, execution_log, form_data, success, exit_code, page, calls,
                   saved_log, raised, dd_tried, dd_hits>>

\* one pass of the loop of line 379; the pass that ends the loop also makes
\* the return of line 389, 394 or 398
UnitSubmitCandidate ==
    /\ pc = "unit_submit"
    /\ ~detail.done
    /\ \E res \in Resolutions :
        LET k == detail.k
            outcome == SubmitCandidate(res)
            escapes == outcome = "raise" /\ ~CandidateExceptionCaught(k)
            finished == outcome = "clicked" \/ escapes \/ k = NumSubmitSelectors
            submit_success == outcome = "clicked"
        IN /\ detail' = [detail EXCEPT
                 !.k = k + 1,
                 !.tried = Append(@, k),
                 !.acted = IF submit_success THEN k ELSE 0,
                 !.element = IF submit_success THEN 1 ELSE 0,
                 !.first_visible =
                     IF @ = 0 /\ FirstDisplayed(res.matches, 1) # 0 THEN k ELSE @,
                 !.last = res,
                 !.outcome = outcome,
                 !.done = finished,
                 !.ok = submit_success]
           /\ calls' = IF finished
                       THEN Append(calls, Call("click_submit_button", "", submit_success))
                       ELSE calls
           /\ execution_log' =
                 IF submit_success
                 THEN log_step(execution_log, "form_submit", "success", <<"Form submitted">>)
                 ELSE execution_log
    /\ UNCHANGED <<pc, driver, bot, form_data, success, exit_code, page, saved_log, raised,
                   dd_tried, dd_hits>>

(***************************************************************************)
(* The phone-field heuristic of the full script, form_automation.py lines  *)
(* 420-516: a fourth strategy that selects the inputs whose placeholder or *)
(* aria-label names the mobile number, and a last resort after the loop.   *)
(* labelled is the set of positions of the inputs that carry such an       *)
(* attribute.                                                              *)
(***************************************************************************)
FullStrategies ==
    Strategies \o << [name |-> "mobile_attribute_search", type |-> "any"] >>

\* strategy['validate'](): the keyword test of line 429, TRUE for the others
FullValidate(k, p) ==
    IF FullStrategies[k].name = "mobile_context_search" THEN p.has_mobile ELSE TRUE

\* the elements strategy['selector'] finds
Selected(el, i, strategy, labelled) ==
    IF strategy.name = "mobile_attribute_search" THEN i \in labelled
    ELSE el.type = strategy.type

\* lines 464-495
RECURSIVE FullTryElements(_, _, _, _, _)
FullTryElements(inputs, i, strategy, labelled, mobile_number) ==
    IF i > Len(inputs) THEN [inputs |-> inputs, found |-> FALSE]
    ELSE IF ~Selected(inputs[i], i, strategy, labelled)
         THEN FullTryElements(inputs, i + 1, strategy, labelled, mobile_number)
    ELSE LET r == TryElement(inputs[i], strategy.name, mobile_number)
             after == [inputs EXCEPT ![i] = r.el]
         IN IF r.found THEN [inputs |-> after, found |-> TRUE]
            ELSE FullTryElements(after, i + 1, strategy, labelled, mobile_number)

\* lines 451-499; every exception of a strategy is caught at line 497
RECURSIVE FullRunStrategies(_, _, _, _, _)
FullRunStrategies(k, p, sfault, labelled, mobile_number) ==
    IF k > Len(FullStrategies) THEN [inputs |-> p.inputs, found |-> FALSE]
    ELSE IF sfault[k] = "raise" \/ ~FullValidate(k, p)
         THEN FullRunStrategies(k + 1, p, sfault, labelled, mobile_number)
    ELSE LET r == FullTryElements(p.inputs, 1, FullStrategies[k], labelled, mobile_number)
         IN IF r.found THEN r
            ELSE FullRunStrategies(k + 1, [p EXCEPT !.inputs = r.inputs], sfault,
                                   labelled, mobile_number)

\* line 501: `if not mobile_field_found:`
LastResortAllowed(mobile_field_found) == ~mobile_field_found

\* lines 506-516: the first displayed input of type text or tel is cleared
\* and written, without a look at is_enabled() and without a read-back; any
\* exception ends the last resort (`except: pass`)
RECURSIVE LastResort(_, _, _)
LastResort(inputs, i, mobile_number) ==
    IF i > Len(inputs) THEN [inputs |-> inputs, found |-> FALSE, filled |-> 0]
    ELSE LET inp == inputs[i]
         IN IF inp.fault = "stale" THEN [inputs |-> inputs, found |-> FALSE, filled |-> 0]
            ELSE IF ~(inp.displayed /\ inp.type \in {"text", "tel"})
                 THEN LastResort(inputs, i + 1, mobile_number)
            ELSE IF ~inp.enabled THEN [inputs |-> inputs, found |-> FALSE, filled |-> 0]
            ELSE IF inp.fault = "nokeys"
                 THEN [inputs |-> [inputs EXCEPT ![i] = Clear(inp)],
                       found |-> FALSE, filled |-> 0]
            ELSE [inputs |-> [inputs EXCEPT ![i] = SendKeys(Clear(inp), mobile_number)],
                  found |-> TRUE, filled |-> i]

\* the heuristic of the full script up to the Submit click
UnitMobileFull ==
    /\ pc = "unit"
    /\ \E p \in UnitPages, sfault \in [1..Len(FullStrategies) -> StrategyAnswers],
          lr_raises \in BOOLEAN :
        \E labelled \in {{}} \cup {{i} : i \in DOMAIN p.inputs} :
          LET r == FullRunStrategies(1, p, sfault, labelled, form_data.mobile)
              ran == LastResortAllowed(r.found)
              lr == IF ran /\ ~lr_raises THEN LastResort(r.inputs, 1, form_data.mobile)
                    ELSE [inputs |-> r.inputs, found |-> FALSE, filled |-> 0]
          IN /\ page' = [p EXCEPT !.inputs = lr.inputs]
             /\ calls' = Append(calls, Call("mobile_heuristic", "", r.found \/ lr.found))
             /\ detail' = [op |-> "mobile_full", mid |-> r.inputs, accepted |-> r.found,
                           ran |-> ran, lr_raises |-> ran /\ lr_raises,
                           filled |-> lr.filled]
    /\ pc' = "unit_done"
    /\ UNCHANGED <<driver, bot, execution_log, form_data, success, exit_code, saved_log,
                   raised, dd_tried, dd_hits>>

(***************************************************************************)
(* The page flow of the two scripts against one driver behaviour b in      *)
(* which the page loads and no element query raises:                       *)
(*   radio          the probe of //input[@type='radio'] finds an element   *)
(*   yes, shi       handle_radio_button succeeds for the variant           *)
(*   next           "moved" | "stayed" | "fail" for click_next_button      *)
(*   company_text, mobile_text   the words in the page source at the end   *)
(*   fields         how many displayed textInput inputs that page has      *)
(* A flow is the sequence of the interactions attempted, each with the     *)
(* page it acts on.                                                        *)
(***************************************************************************)
MaxCompanyFields == 2

Behaviours ==
    [radio : BOOLEAN, yes : BOOLEAN, shi : BOOLEAN, next : {"moved", "stayed", "fail"},
     company_text : BOOLEAN, mobile_text : BOOLEAN, fields : 0..MaxCompanyFields]

Interaction(op, arg, on) == [op |-> op, arg |-> arg, page |-> on]

\* both scripts: four calls whose results are assigned and never tested
\* (form_automation_lightweight.py lines 414-436, form_automation.py 254-285)
Page1Interactions ==
    << Interaction("fill_text_input", "Visitor Name", 1),
       Interaction("handle_microsoft_dropdown", "Access Level", 1),
       Interaction("handle_microsoft_dropdown", "Purpose", 1),
       Interaction("fill_text_input", "Additional Information", 1) >>

\* the page the browser shows after the consent block
PageAfterConsent(b) ==
    IF b.radio /\ (b.yes \/ b.shi) /\ b.next = "moved" THEN 2 ELSE 1

\* form_automation_lightweight.py lines 439-450 and form_automation.py lines
\* 364-383, which are the same statements
ConsentBlock(b) ==
    IF ~b.radio THEN <<>>
    ELSE <<Interaction("handle_radio_button", "Yes", 1)>>
         \o (IF ~b.yes THEN <<Interaction("handle_radio_button", "Shi", 1)>> ELSE <<>>)
         \o (IF b.yes \/ b.shi
             THEN <<Interaction("click_next_button", "", 1)>>
                  \o (IF b.next # "fail"
                      THEN <<Interaction("mobile_heuristic", "", PageAfterConsent(b)),
                             Interaction("click_submit_button", "", PageAfterConsent(b))>>
                      ELSE <<>>)
             ELSE <<>>)

\* form_automation.py lines 387-404: every displayed textInput input of the
\* current page is cleared and written with the company
CompanyFallback(b) ==
    IF b.company_text /\ ~b.mobile_text
    THEN [i \in 1..b.fields |-> Interaction("company_fill", "", PageAfterConsent(b))]
    ELSE <<>>

\* form_automation_lightweight.py, automate_form lines 413-450
LightweightFlow(b) == Page1Interactions \o ConsentBlock(b)

\* form_automation.py, automate_form lines 251-291 with handle_additional_pages
FullFlow(b) == Page1Interactions \o ConsentBlock(b) \o CompanyFallback(b)

\* both scripts are run against the same driver behaviour
UnitFlowPair ==
    /\ pc = "unit"
    /\ \E b \in Behaviours :
        detail' = [op |-> "pair", b |-> b, light |-> LightweightFlow(b), full |-> FullFlow(b)]
    /\ pc' = "unit_done"
    /\ UNCHANGED <<driver, bot, execution_log, form_data, success, exit_code, page, calls,
                   saved_log, raised, dd_tried, dd_hits>>

UnitNext ==
    \/ UnitDropdown
    \/ UnitFill
    \/ UnitFillAgain
    \/ UnitRadio
    \/ UnitMobile
    \/ UnitEmptiness
    \/ UnitMobileFull
    \/ UnitSubmitStart
    \/ UnitSubmitCandidate
    \/ UnitFlowPair

SpecUnit == UnitInit /\ [][UnitNext]_vars

(***************************************************************************)
(* Reading the history.                                                    *)
(***************************************************************************)
Made(op) == {i \in DOMAIN calls : calls[i].op = op}

Attempted(op) == Made(op) # {}

RadioFailed(value_text) ==
    \E i \in DOMAIN calls : calls[i] = Call("handle_radio_button", value_text, FALSE)

BothVariantsFailed == RadioFailed("Yes") /\ RadioFailed("Shi")

AfterAutomateForm == {"af_end", "main_ok", "finally", "done"}

(***************************************************************************)
(* C1  Consent gating.  In any run where the radio selection failed for    *)
(* both "Yes" and the Chinese variant, Next is never clicked, neither the  *)
(* mobile heuristic nor Submit runs, and the run goes to its end without   *)
(* an error: automate_form returns normally, no error is recorded and the  *)
(* exit code, once set, is 0.                                              *)
(***************************************************************************)
C1_ConsentGating ==
    BothVariantsFailed =>
        /\ ~Attempted("click_next_button")
        /\ ~Attempted("mobile_heuristic")
        /\ ~Attempted("click_submit_button")
        /\ pc \in AfterAutomateForm
        /\ execution_log.error = None
        /\ raised = None
        /\ exit_code \in {NoExit, 0}

C1_Witness == pc = "done" /\ BothVariantsFailed /\ exit_code = 0

(***************************************************************************)
(* C2  Ordering of navigation.  Every Submit attempt comes after a Next    *)
(* click that succeeded, and every Next attempt comes after a consent      *)
(* radio selection that succeeded.                                         *)
(***************************************************************************)
C2_NavigationOrder ==
    /\ \A i \in Made("click_submit_button") :
          \E j \in 1..(i - 1) : calls[j] = Call("click_next_button", "", TRUE)
    /\ \A i \in Made("click_next_button") :
          \E j \in 1..(i - 1) : calls[j].op = "handle_radio_button" /\ calls[j].ok

C2_Witness == pc = "done" /\ Attempted("click_submit_button")

(***************************************************************************)
(* C3  A failed Next transition is fatal: whenever click_next_button       *)
(* failed, the finished run reports failure (exit code not 0, success      *)
(* flag false).                                                            *)
(***************************************************************************)
NextFailed == \E i \in DOMAIN calls : calls[i] = Call("click_next_button", "", FALSE)

C3_FailedNextIsFatal ==
    (pc = "done" /\ NextFailed) => (exit_code # 0 /\ ~execution_log.success)

(***************************************************************************)
(* C4  Submit failure: when every Submit locator missed, the finished run  *)
(* has failed with an error recorded (reported through the exit code, not  *)
(* thrown), and the last step of the execution log is the error step of    *)
(* the Submit.                                                             *)
(***************************************************************************)
SubmitFailed == \E i \in DOMAIN calls : calls[i] = Call("click_submit_button", "", FALSE)

LastStep == execution_log.steps[Len(execution_log.steps)]

C4_SubmitFailureReported ==
    (pc = "done" /\ SubmitFailed) =>
        /\ exit_code = 1
        /\ ~execution_log.success
        /\ execution_log.error # None
        /\ LastStep.step = "form_submit"
        /\ LastStep.status = "error"

(***************************************************************************)
(* C5  Exit status.  main returns 0 exactly when no exception reached it   *)
(* (automate_form ran to its end), and then the success flag is true; it   *)
(* returns 1 when construction or automate_form raised, and then the       *)
(* success flag is false.                                                  *)
(***************************************************************************)
C5_ExitStatus ==
    pc = "done" =>
        /\ exit_code \in {0, 1}
        /\ (exit_code = 0) <=> (raised = None)
        /\ (exit_code = 0) => (bot /\ execution_log.success)
        /\ (exit_code # 0) => ~execution_log.success

C5_Witness == pc = "done" /\ exit_code = 0 /\ execution_log.success

C5_WitnessFailure == pc = "done" /\ exit_code = 1 /\ raised = "automate_form"

(***************************************************************************)
(* C6  Session release: no finished run holds a browser session that was   *)
(* started and not quit.                                                   *)
(***************************************************************************)
C6_SessionReleased == pc = "done" => driver # "live"

(***************************************************************************)
(* C7  End-to-end success.  When every interaction of the run succeeded on *)
(* both pages, the log holds, in this order, the success steps of the name *)
(* fill, the two dropdowns, the consent radio, the Next click, the mobile  *)
(* fill with the supplied number and the Submit; the run reports success.  *)
(***************************************************************************)
AllSucceeded ==
    /\ calls = << Call("fill_text_input", "Visitor Name", TRUE),
                  Call("handle_microsoft_dropdown", "Access Level", TRUE),
                  Call("handle_microsoft_dropdown", "Purpose", TRUE),
                  Call("fill_text_input", "Additional Information", TRUE),
                  Call("handle_radio_button", "Yes", TRUE),
                  Call("click_next_button", "", TRUE),
                  Call("mobile_heuristic", "", TRUE),
                  Call("click_submit_button", "", TRUE) >>
    /\ page.id = 2

Step(name, message) == [step |-> name, status |-> "success", message |-> message]

ExpectedSteps ==
    << Step("fill_visitor_name", <<"Filled", "Visitor Name">>),
       Step("dropdown_access_level", <<"Selected", form_data.access_level>>),
       Step("dropdown_purpose", <<"Selected", form_data.purpose>>),
       Step("radio_button", <<"Selected", "Yes">>),
       Step("click_next", <<"Next button clicked">>),
       Step("mobile_number", <<"Filled mobile:", form_data.mobile>>),
       Step("form_submit", <<"Form submitted">>) >>

\* pattern[i..] occurs, in order, within steps[j..]
RECURSIVE InOrder(_, _, _, _)
InOrder(pattern, i, steps, j) ==
    IF i > Len(pattern) THEN TRUE
    ELSE IF j > Len(steps) THEN FALSE
    ELSE IF steps[j] = pattern[i] THEN InOrder(pattern, i + 1, steps, j + 1)
    ELSE InOrder(pattern, i, steps, j + 1)

C7_EndToEndSuccess ==
    (pc = "done" /\ AllSucceeded) =>
        /\ InOrder(ExpectedSteps, 1, execution_log.steps, 1)
        /\ execution_log.success
        /\ execution_log.error = None
        /\ exit_code = 0

C7_Witness == pc = "done" /\ AllSucceeded

(***************************************************************************)
(* C8  Page-1 best effort.  Once the page has loaded, the four page-1      *)
(* interactions are each attempted exactly once, in the order name, access *)
(* level, purpose, additional information, whatever their results, and the *)
(* flow then goes to the consent-radio step.                               *)
(***************************************************************************)
Page1Calls ==
    << <<"fill_text_input", "Visitor Name">>,
       <<"handle_microsoft_dropdown", "Access Level">>,
       <<"handle_microsoft_dropdown", "Purpose">>,
       <<"fill_text_input", "Additional Information">> >>

Page1Pcs == <<"name", "access", "purpose", "addinfo", "radio_probe">>

PageLoaded ==
    \E i \in DOMAIN execution_log.steps :
        execution_log.steps[i].step = "page_load" /\ execution_log.steps[i].status = "success"

\* the first n calls are the first n page-1 interactions, and no other call is one of them
Page1Prefix(n) ==
    /\ Len(calls) >= n
    /\ \A i \in 1..n : <<calls[i].op, calls[i].arg>> = Page1Calls[i]
    /\ \A i \in DOMAIN calls : i > n => calls[i].op \notin {"fill_text_input", "handle_microsoft_dropdown"}

C8_Page1State ==
    PageLoaded =>
        /\ \A k \in 1..4 : pc = Page1Pcs[k] => (Len(calls) = k - 1 /\ Page1Prefix(k - 1))
        /\ pc \notin {"name", "access", "purpose", "addinfo"} => Page1Prefix(4)
        /\ pc = "radio_probe" => Len(calls) = 4

C8_Page1Step == \A k \in 1..4 : pc = Page1Pcs[k] => pc' = Page1Pcs[k + 1]

C8_Page1BestEffort == [](C8_Page1State) /\ [][C8_Page1Step]_vars

C8_Witness ==
    /\ pc = "radio_probe"
    /\ \A i \in 1..4 : ~calls[i].ok

(***************************************************************************)
(* C9  Mobile-to-Submit is unconditional.  Whenever the mobile heuristic   *)
(* was entered, the Submit click is attempted exactly once afterwards,     *)
(* whatever the heuristic found and whatever raised inside it.             *)
(***************************************************************************)
C9_MobileThenSubmit ==
    Attempted("mobile_heuristic") =>
        /\ Cardinality(Made("mobile_heuristic")) = 1
        /\ pc \in {"submit"} \cup AfterAutomateForm
        /\ pc = "submit" => ~Attempted("click_submit_button")
        /\ pc \in AfterAutomateForm =>
              /\ Cardinality(Made("click_submit_button")) = 1
              /\ \A i \in Made("click_submit_button") : \A j \in Made("mobile_heuristic") : j < i

C9_Witness ==
    /\ pc = "done"
    /\ \E i \in DOMAIN calls : calls[i] = Call("mobile_heuristic", "", FALSE)
    /\ \E i \in DOMAIN page.inputs : page.inputs[i].fault = "stale"
    /\ Attempted("click_submit_button")

C9_WitnessAccepted ==
    /\ pc = "done"
    /\ \E i \in DOMAIN calls : calls[i] = Call("mobile_heuristic", "", TRUE)
    /\ Attempted("click_submit_button")

(***************************************************************************)
(* C10  Dropdown strategy order.  The strategies are tried in the order    *)
(* 1, 2, 3; a strategy is tried only if no earlier one selected the        *)
(* option, so at most one strategy selects per call and it is the last one *)
(* tried.                                                                  *)
(***************************************************************************)
C10_DropdownStrategyOrder ==
    /\ dd_tried \in {<<>>, <<1>>, <<1, 2>>, <<1, 2, 3>>}
    /\ Len(dd_hits) <= 1
    /\ Len(dd_hits) = 1 => (dd_tried # <<>> /\ dd_hits[1] = dd_tried[Len(dd_tried)])
    /\ (dd_hits = <<>> /\ dd_tried # <<>>) => dd_tried = <<1, 2, 3>>

C10_Witness == dd_tried = <<1, 2, 3>> /\ dd_hits = <<3>>

C10_WitnessFirst == dd_tried = <<1>> /\ dd_hits = <<1>>

(***************************************************************************)
(* C11  Dropdown keyboard fallback.  When strategies 1 and 2 find nothing  *)
(* and the keyboard entry goes through, the call returns success and logs  *)
(* a success step; that strategy 3 was used is recorded in the logger      *)
(* transcript ("Selected option using keyboard"), and only there.          *)
(***************************************************************************)
OnlyKeyboardWorks ==
    /\ detail.op = "dropdown"
    /\ detail.open = "ok"
    /\ detail.s1 = "none"
    /\ FirstHit(detail.s2, 1) = 0
    /\ detail.s3 = "ok"

StrategyUsed(step) == IF "strategy" \in DOMAIN step THEN step.strategy ELSE 0

C12_SuccessImpliesSelection ==
    (detail.op = "dropdown" /\ detail.ok) => detail.selected = detail.option_text

(***************************************************************************)
(* C14  Strategy 1 clicks only an element that opening the dropdown        *)
(* revealed, never one that was on the page before.                        *)
(***************************************************************************)
C14_ClicksOnlyRevealed ==
    (detail.op = "dropdown" /\ detail.clicked # 0) => detail.cands[detail.clicked].revealed

(***************************************************************************)
(* C13  Dropdown failure is non-fatal.  A dropdown call that fails returns *)
(* failure and logs exactly one error step for its field; no exception     *)
(* reaches automate_form because of it, the flow goes on to the next step, *)
(* and all four page-1 interactions are attempted before the consent step. *)
(***************************************************************************)
DropdownFailed(i) == calls[i].op = "handle_microsoft_dropdown" /\ ~calls[i].ok

ErrorSteps(name) ==
    {j \in DOMAIN execution_log.steps :
        execution_log.steps[j].step = name /\ execution_log.steps[j].status = "error"}

C13_FailedDropdownState ==
    \A i \in DOMAIN calls :
        DropdownFailed(i) =>
            /\ Cardinality(ErrorSteps("dropdown_" \o Slug(calls[i].arg))) = 1
            /\ pc \notin {"name", "access"}
            /\ (pc \notin {"purpose", "addinfo"}) => Page1Prefix(4)
            /\ (pc \in {"purpose", "addinfo", "radio_probe"}) => raised = None

\* the step in which a dropdown call fails
C13_FailedDropdownStep ==
    (/\ pc \in {"access", "purpose"}
     /\ Len(calls') = Len(calls) + 1
     /\ DropdownFailed(Len(calls))') =>
        /\ pc' = (IF pc = "access" THEN "purpose" ELSE "addinfo")
        /\ raised' = None
        /\ execution_log'.error = None
        /\ Len(execution_log'.steps) = Len(execution_log.steps) + 1
        /\ execution_log'.steps[Len(execution_log'.steps)].status = "error"

C15_FillVerified ==
    (pc = "access" /\ calls = <<Call("fill_text_input", "Visitor Name", TRUE)>>) =>
        Contains(NameElement(page).value, form_data.name)

(***************************************************************************)
(* C16  Text fill is idempotent on value.  Whatever the control held,      *)
(* calling fill_text_input again with the same value leaves the control as *)
(* the first call left it, and on a control that takes the keys the value  *)
(* is the written value, not the value doubled.                            *)
(***************************************************************************)
AcceptsKeys(el) == Clickable(el) /\ el.fault = "none"

C16_FillIdempotent ==
    (detail.op = "fill" /\ detail.n >= 2) =>
        /\ NameElement(page) = detail.first
        /\ AcceptsKeys(detail.before) =>
              (detail.ok /\ NameElement(page).value = <<detail.value>>)

C16_Witness ==
    /\ detail.op = "fill" /\ detail.n >= 2
    /\ detail.before.value = <<"old">> /\ AcceptsKeys(detail.before)
    /\ NameElement(page).value = <<VisitorName>>

(***************************************************************************)
(* C17  Radio selection fallback.  The strategies run in the fixed order   *)
(* value attribute, label, preceding sibling, following sibling, parent's  *)
(* child, click on the text element; the first strategy whose click        *)
(* succeeds is the last one to run and the only one to click; a miss, a    *)
(* hidden element or an exception in an earlier strategy is swallowed, so  *)
(* the call returns success exactly when some strategy's click succeeds.   *)
(***************************************************************************)
Winners == {i \in 1..NumRadioStrategies : detail.answers[i] = "hit"}

FirstWinner == CHOOSE i \in Winners : \A j \in Winners : i <= j

C17_RadioFallback ==
    detail.op = "radio" =>
        /\ RadioStrategies = <<"value_attr", "label", "preceding_sibling",
                               "following_sibling", "parent_child", "text_click">>
        /\ detail.ok = (Winners # {})
        /\ Winners # {} =>
              /\ detail.tried = [i \in 1..FirstWinner |-> i]
              /\ detail.clicks = <<FirstWinner>>
              /\ LastStep = [step |-> "radio_button", status |-> "success",
                             message |-> <<"Selected", detail.value_text>>]
        /\ Winners = {} =>
              /\ detail.tried = [i \in 1..NumRadioStrategies |-> i]
              /\ detail.clicks = <<>>
              /\ LastStep.status = "error"

\* an earlier strategy raised, a later selector won, the text click did not run
C17_Witness ==
    /\ detail.op = "radio" /\ detail.ok
    /\ detail.answers[1] = "click_raises" /\ detail.answers[2] = "missing"
    /\ detail.answers[3] = "hit" /\ detail.answers[6] = "hit"
    /\ detail.tried = <<1, 2, 3>>

\* only the final click on the text element wins
C17_WitnessLast ==
    /\ detail.op = "radio" /\ detail.ok
    /\ detail.tried = <<1, 2, 3, 4, 5, 6>> /\ detail.clicks = <<6>>

(***************************************************************************)
(* C18  Mobile-field heuristic acceptance: at the end of the heuristic     *)
(* every input other than the accepted one holds the value it held before  *)
(* the heuristic started.                                                  *)
(***************************************************************************)
Changed == {i \in DOMAIN page.inputs : page.inputs[i] # detail.before[i]}

Accepted ==
    {i \in DOMAIN page.inputs :
        detail.found /\ Contains(page.inputs[i].value, form_data.mobile)}

C18_OthersUntouched ==
    detail.op = "mobile" =>
        /\ Cardinality(Changed) <= 1
        /\ Changed \subseteq Accepted

(***************************************************************************)
(* C19  Contextual gate of the mobile heuristic.  The contextual strategy  *)
(* queries the page only if the page text contains the keyword; without    *)
(* the keyword no text input that holds a value is modified, and the       *)
(* emptiness strategy is the first one to query the page.                  *)
(***************************************************************************)
C19_ContextualGate ==
    detail.op = "mobile" =>
        /\ (\E j \in DOMAIN detail.queried : detail.queried[j] = 1) => detail.has_mobile
        /\ ~detail.has_mobile =>
              /\ \A i \in DOMAIN detail.before :
                    (detail.before[i].type = "text" /\ ~IsBlank(detail.before[i].value)) =>
                        page.inputs[i] = detail.before[i]
              /\ (detail.sfault[2] = "ok" /\ ~detail.escaped) =>
                    (detail.queried # <<>> /\ detail.queried[1] = 2)

\* no keyword, a filled text input is passed over and the blank one after it is taken
C19_Witness ==
    /\ detail.op = "mobile" /\ ~detail.has_mobile /\ detail.found
    /\ detail.sfault = <<"ok", "ok", "ok">>
    /\ detail.queried = <<2>>
    /\ Len(detail.before) = 2
    /\ detail.before[1].value = <<"old">> /\ AcceptsKeys(detail.before[1])
    /\ detail.before[1].type = "text"
    /\ page.inputs[1] = detail.before[1]
    /\ page.inputs[2].value = <<form_data.mobile>>

(***************************************************************************)
(* C20  Emptiness strategy: an input that already carries a non-blank      *)
(* value is neither cleared nor written, and only displayed, enabled text  *)
(* inputs whose value is blank are changed.                                *)
(***************************************************************************)
C20_EmptinessSkipsFilled ==
    detail.op = "emptiness" =>
        \A i \in DOMAIN detail.before :
            /\ ~IsBlank(detail.before[i].value) => page.inputs[i] = detail.before[i]
            /\ page.inputs[i] # detail.before[i] =>
                  /\ IsBlank(detail.before[i].value)
                  /\ Clickable(detail.before[i])
                  /\ detail.before[i].type = "text"

\* a filled input that would take the keys is passed over, the white-space one is filled
C20_Witness ==
    /\ detail.op = "emptiness" /\ detail.found
    /\ Len(detail.before) = 2
    /\ detail.before[1].value = <<"old">> /\ AcceptsKeys(detail.before[1])
    /\ detail.before[1].type = "text"
    /\ detail.before[2].value = <<" ">>
    /\ page.inputs[1] = detail.before[1]
    /\ page.inputs[2].value = <<form_data.mobile>>

(***************************************************************************)
(* C22  Ordered locator: click_submit_button acts on the element of the    *)
(* first candidate, in list order, that resolves to at least one visible   *)
(* element, and never on an element of a later candidate.                  *)
(***************************************************************************)
C22_OrderedLocator ==
    (detail.op = "submit" /\ detail.done) =>
        /\ detail.tried = [i \in 1..Len(detail.tried) |-> i]
        /\ detail.acted = detail.first_visible

(***************************************************************************)
(* C23  Multi-match tie-break: when the candidate that was just tried      *)
(* resolves to several elements of which some are visible, the first       *)
(* visible one in document order is the element that is clicked.           *)
(***************************************************************************)
FirstClickable(matches) ==
    IF \E i \in DOMAIN matches :
           matches[i].displayed /\ matches[i].enabled /\ ~matches[i].click_raises
    THEN CHOOSE i \in DOMAIN matches :
           /\ matches[i].displayed /\ matches[i].enabled /\ ~matches[i].click_raises
           /\ \A j \in 1..(i - 1) : ~matches[j].displayed
    ELSE 0

C23_FirstVisibleChosen ==
    (/\ detail.op = "submit" /\ detail.tried # <<>>
     /\ Len(detail.last.matches) >= 2
     /\ \E i \in DOMAIN detail.last.matches :
           /\ detail.last.matches[i].displayed /\ detail.last.matches[i].enabled
           /\ ~detail.last.matches[i].click_raises
           /\ \A j \in 1..(i - 1) : ~detail.last.matches[j].displayed) =>
        /\ detail.acted = detail.tried[Len(detail.tried)]
        /\ detail.element = FirstClickable(detail.last.matches)

(***************************************************************************)
(* C24  Candidate misses do not raise.  A candidate that resolves to       *)
(* nothing, or whose lookup or click raises, only makes the next candidate *)
(* be tried; click_submit_button returns failure only when every candidate *)
(* was tried without a click, and no exception reaches its caller.         *)
(***************************************************************************)
C24_MissesDoNotRaise ==
    detail.op = "submit" =>
        /\ raised = None
        /\ (~detail.done /\ detail.tried # <<>>) =>
              (detail.k = Len(detail.tried) + 1 /\ detail.k <= NumSubmitSelectors)
        /\ (detail.done /\ ~detail.ok) =>
              detail.tried = [i \in 1..NumSubmitSelectors |-> i]
        /\ detail.done =>
              /\ detail.ok = (detail.outcome = "clicked")
              /\ calls = <<Call("click_submit_button", "", detail.ok)>>

\* the first three candidates miss or raise, the fourth is clicked
C24_Witness ==
    /\ detail.op = "submit" /\ detail.done /\ detail.ok
    /\ detail.tried = <<1, 2, 3, 4>>
    /\ detail.acted = 4

(***************************************************************************)
(* C21  Mobile last resort.  The last resort never runs when a strategy    *)
(* accepted a field; when none did, the first visible and enabled input of *)
(* a plausible type holds the mobile value afterwards, and no other input  *)
(* is changed by the last resort.                                          *)
(***************************************************************************)
Plausible(el) == el.displayed /\ el.enabled /\ el.type \in {"text", "tel"}

FirstPlausible(inputs) ==
    IF \E i \in DOMAIN inputs : Plausible(inputs[i])
    THEN CHOOSE i \in DOMAIN inputs :
            Plausible(inputs[i]) /\ \A j \in 1..(i - 1) : ~Plausible(inputs[j])
    ELSE 0

C21_LastResort ==
    detail.op = "mobile_full" =>
        /\ detail.accepted => (~detail.ran /\ page.inputs = detail.mid)
        /\ (/\ ~detail.accepted /\ ~detail.lr_raises
            /\ FirstPlausible(detail.mid) # 0
            /\ \A i \in DOMAIN detail.mid : detail.mid[i].fault = "none") =>
              /\ Contains(page.inputs[FirstPlausible(detail.mid)].value, form_data.mobile)
              /\ \A j \in DOMAIN page.inputs :
                    j # FirstPlausible(detail.mid) => page.inputs[j] = detail.mid[j]

(***************************************************************************)
(* C25  Page-change detection: click_next_button signals success only in   *)
(* a run where the page changed after the click.                           *)
(***************************************************************************)
C25_SuccessImpliesPageChange ==
    (/\ calls # <<>>
     /\ calls[Len(calls)] = Call("click_next_button", "", TRUE)) => page.id = 2

(***************************************************************************)
(* C26  The execution log is append-only: every step leaves the records    *)
(* already appended in place and in order, and the saved log carries the   *)
(* same records.                                                           *)
(***************************************************************************)
C26_Extends ==
    /\ Len(execution_log'.steps) >= Len(execution_log.steps)
    /\ SubSeq(execution_log'.steps, 1, Len(execution_log.steps)) = execution_log.steps

C26_AppendOnly ==
    /\ [][C26_Extends]_vars
    /\ [](saved_log # <<>> => saved_log[1].steps = execution_log.steps)

C26_Witness ==
    /\ pc = "done"
    /\ Len(execution_log.steps) = 10
    /\ saved_log = <<execution_log>>

(***************************************************************************)
(* C27  One record per interaction: every step of the run that makes an    *)
(* interaction appends exactly one step record, with status success if the *)
(* interaction succeeded and error if it failed.                           *)
(***************************************************************************)
C27_Step ==
    Len(calls') = Len(calls) + 1 =>
        /\ Len(execution_log'.steps) = Len(execution_log.steps) + 1
        /\ execution_log'.steps[Len(execution_log'.steps)].status =
              (IF calls'[Len(calls')].ok THEN "success" ELSE "error")

C27_OneRecordPerInteraction == [][C27_Step]_vars

(***************************************************************************)
(* C28  Termination.  Every step of main moves the control point forward  *)
(* in a fixed finite order and no step leads back, so no strategy loop or  *)
(* fallback chain repeats: a run in which every call returns or raises     *)
(* takes at most Len(PcOrder) steps, and its end, after the finally block, *)
(* carries an exit status.                                                 *)
(***************************************************************************)
PcOrder ==
    <<"start", "open", "name", "access", "purpose", "addinfo", "radio_probe",
      "radio_yes", "radio_zh", "next", "mobile", "submit", "af_end", "af_except",
      "main_ok", "main_except", "finally", "done">>

Position(p) == CHOOSE i \in DOMAIN PcOrder : PcOrder[i] = p

C28_Advances == Position(pc') > Position(pc)

C28_Terminates ==
    /\ [][C28_Advances]_vars
    /\ [](\E i \in DOMAIN PcOrder : PcOrder[i] = pc)
    /\ [](pc = "done" => exit_code \in {0, 1})

C28_Witness ==
    /\ pc = "done" /\ exit_code = 0
    /\ driver = "quit"
    /\ Len(calls) = 8

(***************************************************************************)
(* C30  First-match-wins among blank inputs.  With two or more visible,    *)
(* enabled, blank text inputs and a contextual strategy that did not run,  *)
(* the emptiness strategy writes the first of them in document order, and  *)
(* when its read-back contains the mobile value no other input is cleared  *)
(* or written.                                                             *)
(***************************************************************************)
Blanks ==
    {i \in DOMAIN detail.before :
        /\ Clickable(detail.before[i])
        /\ detail.before[i].type = "text"
        /\ IsBlank(detail.before[i].value)}

FirstBlank == CHOOSE i \in Blanks : \A j \in Blanks : i <= j

C30_FirstBlankWins ==
    (/\ detail.op = "mobile"
     /\ Cardinality(Blanks) >= 2
     /\ detail.queried # <<>> /\ detail.queried[1] = 2) =>
        /\ AcceptsKeys(detail.before[FirstBlank]) =>
              (detail.found /\ page.inputs[FirstBlank].value = <<form_data.mobile>>)
        /\ Contains(page.inputs[FirstBlank].value, form_data.mobile) =>
              /\ detail.found
              /\ \A j \in DOMAIN page.inputs :
                    j # FirstBlank => page.inputs[j] = detail.before[j]

C30_Witness ==
    /\ detail.op = "mobile" /\ detail.queried = <<2>>
    /\ Cardinality(Blanks) = 2
    /\ AcceptsKeys(detail.before[1]) /\ AcceptsKeys(detail.before[2])
    /\ page.inputs[1].value = <<form_data.mobile>>
    /\ page.inputs[2] = detail.before[2]

(***************************************************************************)
(* C31  Page-load failure aborts before any interaction.  When the anchor  *)
(* element does not become present within the timeout, automate_form       *)
(* raises, no interaction is performed, execution_log.success stays false, *)
(* execution_log.error is set, and main returns 1.                         *)
(***************************************************************************)
PageLoadFailed ==
    \E i \in DOMAIN execution_log.steps :
        execution_log.steps[i].step = "page_load" /\ execution_log.steps[i].status = "error"

C31_PageLoadFailureAborts ==
    PageLoadFailed =>
        /\ calls = <<>>
        /\ ~execution_log.success
        /\ pc \in {"af_except", "main_except", "finally", "done"}
        /\ pc # "af_except" => (raised = "automate_form" /\ execution_log.error # None)
        /\ pc \in {"finally", "done"} => exit_code = 1
        /\ LastStep.step = "page_load"

C31_Witness ==
    /\ PageLoadFailed
    /\ pc = "done" /\ exit_code = 1
    /\ driver = "quit"
    /\ saved_log # <<>> /\ saved_log[1].error # None

(***************************************************************************)
(* C33  No consent question.  When the probe after the page-1 fields finds *)
(* no radio input, the flow makes no radio selection, no Next click, no    *)
(* mobile heuristic and no Submit click, appends none of their records,    *)
(* and ends with run status success.                                       *)
(***************************************************************************)
NoConsentQuestion == detail = [op |-> "probe", answer |-> "empty"]

C33_NoConsentQuestion ==
    NoConsentQuestion =>
        /\ Page1Prefix(4) /\ Len(calls) = 4
        /\ \A i \in DOMAIN execution_log.steps :
              execution_log.steps[i].step \notin
                  {"radio_button", "click_next", "mobile_number", "form_submit"}
        /\ pc \in {"af_end", "main_ok", "finally", "done"}
        /\ raised = None /\ execution_log.error = None
        /\ pc # "af_end" => execution_log.success
        /\ pc \in {"finally", "done"} => exit_code = 0

C33_Witness ==
    /\ NoConsentQuestion
    /\ pc = "done" /\ exit_code = 0
    /\ execution_log.success
    /\ Len(execution_log.steps) = 6

(***************************************************************************)
(* C34  Consent variants.  The second variant is attempted if and only if  *)
(* the attempt with "Yes" failed; at most one radio selection succeeds per *)
(* run; the Next click is attempted if and only if one of the two variants *)
(* succeeded.                                                              *)
(***************************************************************************)
RadioCalls == Made("handle_radio_button")

C34_ConsentVariants ==
    /\ \A i \in RadioCalls :
          /\ calls[i].arg = "Shi" =>
                (i > 1 /\ calls[i - 1] = Call("handle_radio_button", "Yes", FALSE))
          /\ (calls[i].arg = "Yes" /\ ~calls[i].ok /\ pc # "radio_zh") =>
                (Len(calls) > i /\ calls[i + 1].op = "handle_radio_button"
                                /\ calls[i + 1].arg = "Shi")
          /\ (calls[i].arg = "Yes" /\ calls[i].ok) => ~RadioFailed("Shi") /\ pc # "radio_zh"
          /\ (calls[i].ok /\ pc # "next") =>
                (Len(calls) > i /\ calls[i + 1].op = "click_next_button")
    /\ Cardinality({i \in RadioCalls : calls[i].ok}) <= 1
    /\ Cardinality({i \in RadioCalls : calls[i].arg = "Yes"}) <= 1
    /\ \A i \in Made("click_next_button") :
          i > 1 /\ calls[i - 1].op = "handle_radio_button" /\ calls[i - 1].ok

\* "Yes" failed, the second variant succeeded, and Next was clicked
C34_Witness ==
    /\ Len(calls) >= 7
    /\ calls[5] = Call("handle_radio_button", "Yes", FALSE)
    /\ calls[6] = Call("handle_radio_button", "Shi", TRUE)
    /\ calls[7].op = "click_next_button"

(***************************************************************************)
(* C35  Dropdown that cannot be opened.  When the trigger does not become  *)
(* clickable or the opening click raises, handle_microsoft_dropdown logs   *)
(* an error step and returns failure without running any of the three      *)
(* option strategies; no keyboard input is sent.                           *)
(***************************************************************************)
C35_UnopenedDropdown ==
    (detail.op = "dropdown" /\ detail.open # "ok") =>
        /\ ~detail.ok
        /\ detail.tried = <<>> /\ detail.hits = <<>> /\ detail.logged = <<>>
        /\ detail.clicked = 0 /\ detail.selected = ""
        /\ LastStep = [step |-> "dropdown_access_level", status |-> "error",
                       message |-> <<"exception">>]

\* the keyboard would have worked, but the trigger's click raised
C35_Witness ==
    /\ detail.op = "dropdown" /\ detail.open = "click_raises"
    /\ detail.s3 = "ok"
    /\ ~detail.ok /\ dd_tried = <<>>

(***************************************************************************)
(* C36  Status-flag invariant.  execution_log.success is true only after   *)
(* automate_form ran to its end without raising, it implies that           *)
(* execution_log.error is None, and the saved log never shows success and  *)
(* an error together.                                                      *)
(***************************************************************************)
C36_StatusFlags ==
    /\ execution_log.success =>
          /\ pc \in {"main_ok", "finally", "done"}
          /\ raised = None
          /\ execution_log.error = None
    /\ saved_log # <<>> => ~(saved_log[1].success /\ saved_log[1].error # None)

C36_Witness ==
    /\ pc = "done"
    /\ saved_log # <<>> /\ saved_log[1].success /\ saved_log[1].error = None
    /\ \E i \in DOMAIN calls : ~calls[i].ok

C36_WitnessError ==
    /\ pc = "done"
    /\ saved_log # <<>> /\ ~saved_log[1].success /\ saved_log[1].error # None

(***************************************************************************)
(* C32  Visitor-name frame property.  Once the Visitor Name field was      *)
(* filled successfully, the mobile heuristic leaves it as it is, also when *)
(* the Next click succeeded and the browser still shows page 1.            *)
(***************************************************************************)
C32_NameFieldKept ==
    (/\ Attempted("mobile_heuristic")
     /\ calls[1] = Call("fill_text_input", "Visitor Name", TRUE)
     /\ page.id = 1
     /\ NameElement(page).type = "text"
     /\ NameElement(page).fault = "none") =>
        NameElement(page).value = <<form_data.name>>

(***************************************************************************)
(* C37  The two scripts agree on the page flow: against the same driver    *)
(* behaviour they make the same interactions on page 1 and the same        *)
(* consent, Next and Submit attempts, in the same order.                   *)
(***************************************************************************)
InPageFlow(e) ==
    e.page = 1 \/ e.op \in {"handle_radio_button", "click_next_button", "click_submit_button"}

C37_ScriptsAgree ==
    detail.op = "pair" =>
        SelectSeq(detail.light, InPageFlow) = SelectSeq(detail.full, InPageFlow)
====
